---- MODULE Spec2Model ----
(***************************************************************************)
(* Quiz-app: the Quiz state machine (js/QuizApp.js, class Quiz), the       *)
(* Question base class and its two variants, and the localStorage record   *)
(* the Quiz writes and reads.                                              *)
(***************************************************************************)
EXTENDS Integers, Sequences, FiniteSets, TLC

\* ---------------------------------------------------------------- bounds
MaxQuestions == 2      \* longest question collection addQuestion may build
MaxAttempts == 2       \* submissions per storage lifetime
MaxTime == 1           \* ticks of the clock
MaxFaults == 1         \* storage calls that throw
MaxReloads == 1        \* page loads after the first

\* ------------------------------------------------------------ null values
\* JavaScript null for a selectedAnswer (answers are strings)
null == "null"
\* JavaScript null for _startTime / _endTime (clock readings start at 1)
nullTime == 0
\* NaN, the value of 0/0 in _generateResults
NaN == -1

\* -------------------------------------------------------------- questions
\* new MultipleChoiceQuestion(id, text, options, correctAnswer)
MultipleChoiceQuestion(id, options, correctAnswer) ==
    [id |-> id, type |-> "multiple-choice", options |-> options,
     correctAnswer |-> correctAnswer, selectedAnswer |-> null]

\* (bug) the fixed options are listed the other way round
TrueFalseQuestionSwapped(id, correctAnswer) ==
    [id |-> id, type |-> "true-false", options |-> <<"False", "True">>,
     correctAnswer |-> correctAnswer, selectedAnswer |-> null]

\* new TrueFalseQuestion(id, text, correctAnswer)
TrueFalseQuestion(id, correctAnswer) ==
    [id |-> id, type |-> "true-false", options |-> <<"True", "False">>,
     correctAnswer |-> correctAnswer, selectedAnswer |-> null]

\* The questions handed to the Quiz constructor: the first multiple-choice
\* and the first true/false question of the fallback list, two options kept
InitialQuestions ==
    << MultipleChoiceQuestion(1, <<"London", "Paris">>, "Paris"),
       TrueFalseQuestion(2, "False") >>

\* Questions a caller may hand to addQuestion (the id is already in use)
ExtraQuestions ==
    { MultipleChoiceQuestion(1, <<"Berlin", "London">>, "Berlin") }

\* Ids and answers callers pass in (9 is an id no question has,
\* "Maybe" an answer no question offers)
QuestionIds == {1, 2, 9}
Answers == {"London", "Paris", "False", "Maybe"}

\* (bug) every answer passes for an option
includesAnything(options, answer) == TRUE

\* Array.prototype.includes on an option list
includes(options, answer) == \E i \in DOMAIN options : options[i] = answer

\* (bug) every answered question counts as correct
isCorrectWhenAnswered(q) == q.selectedAnswer # null

\* Question.isCorrect
isCorrect(q) == q.selectedAnswer = q.correctAnswer

\* (bug) the last match instead of the first
findLastIndex(qs, id) ==
    IF \E i \in DOMAIN qs : qs[i].id = id
    THEN CHOOSE i \in DOMAIN qs :
            qs[i].id = id /\ \A j \in DOMAIN qs : qs[j].id = id => i >= j
    ELSE 0

\* Array.prototype.findIndex(q => q.id === id); 0 stands for -1
findIndex(qs, id) ==
    IF \E i \in DOMAIN qs : qs[i].id = id
    THEN CHOOSE i \in DOMAIN qs :
            qs[i].id = id /\ \A j \in DOMAIN qs : qs[j].id = id => i <= j
    ELSE 0

\* (bug) an unknown id falls back to the first question
getQuestionOrFirst(qs, id) ==
    IF findIndex(qs, id) # 0 THEN findIndex(qs, id)
    ELSE IF Len(qs) > 0 THEN 1 ELSE 0

\* (bug) the lookup returns the last question with the id
getQuestionLast(qs, id) ==
    IF \E i \in DOMAIN qs : qs[i].id = id
    THEN CHOOSE i \in DOMAIN qs :
            qs[i].id = id /\ \A j \in DOMAIN qs : qs[j].id = id => i >= j
    ELSE 0

\* Quiz.getQuestion: index of the first question with the id, 0 for null
getQuestion(qs, id) == findIndex(qs, id)

\* (bug) "some" where the code says "every"
areAllQuestionsAnsweredSome(qs) == \E i \in DOMAIN qs : qs[i].selectedAnswer # null

\* Quiz.areAllQuestionsAnswered
areAllQuestionsAnswered(qs) == \A i \in DOMAIN qs : qs[i].selectedAnswer # null

\* Quiz.getAnsweredCount
getAnsweredCount(qs) == Cardinality({i \in DOMAIN qs : qs[i].selectedAnswer # null})

\* (bug) counts the answered questions instead of the correct ones
CorrectCountAnswered(qs) == getAnsweredCount(qs)

\* the count Quiz.calculateScore computes
CorrectCount(qs) == Cardinality({i \in DOMAIN qs : isCorrect(qs[i])})

\* (bug) the forEach over the questions is missing
resetAnswersKeeps(qs) == qs

\* Question.resetAnswer applied by forEach
resetAnswers(qs) == [i \in DOMAIN qs |-> [qs[i] EXCEPT !.selectedAnswer = null]]

\* ------------------------------------------------------------ arithmetic
\* passThreshold 0.7 as the fraction ThresholdNum / ThresholdDen
ThresholdNum == 7
ThresholdDen == 10

\* Quiz.isPassed: score / length >= passThreshold (x/0 is NaN or Infinity;
\* score is 0 whenever length is 0 at a submission, and NaN >= t is false)
isPassed(sc, total) ==
    IF total = 0 THEN sc > 0
    ELSE sc * ThresholdDen >= ThresholdNum * total

\* The pairs (score, length), length up to 80, for which 100 * score / length
\* is k + 1/2 exactly while the double (score / length) * 100 is the double
\* just below it: score / length is rounded to 53 bits before the product
\* (23 / 40 * 100 is 57.49999999999999 in IEEE 754 double arithmetic)
ProductBelowHalf == { <<23, 40>>, <<46, 80>> }

\* Math.round((score / length) * 100): the double product, rounded half up
Percentage(sc, total) ==
    IF total = 0 THEN NaN
    ELSE IF <<sc, total>> \in ProductBelowHalf
         THEN (200 * sc + total) \div (2 * total) - 1
    ELSE (200 * sc + total) \div (2 * total)

\* Math.ceil(length * passThreshold)
PassingScore(total) ==
    (total * ThresholdNum + ThresholdDen - 1) \div ThresholdDen

\* Quiz.duration getter: whole seconds between start and end (or now)
Duration(start, end, clock) ==
    IF start = nullTime THEN 0
    ELSE (IF end # nullTime THEN end ELSE clock) - start

\* --------------------------------------------------------------- storage
\* Date.prototype.toISOString inside JSON: null stays null (<<>>),
\* a date becomes a one-string value (<<t>>)
toISOString(t) == IF t = nullTime THEN <<>> ELSE <<t>>

\* (bug) the parsed time is off by one tick
parseDateShifted(s) == s[1] + 1

\* new Date(isoString)
parseDate(s) == s[1]

\* the quizState object _saveToStorage serialises
QuizState(qs, start, completed, att) ==
    [answers |-> [i \in DOMAIN qs |->
                    [id |-> qs[i].id, selectedAnswer |-> qs[i].selectedAnswer]],
     startTime |-> toISOString(start),
     isCompleted |-> completed,
     attempts |-> att,
     version |-> "1.0"]

\* JavaScript truthiness of a saved selectedAnswer (null and "" are falsy)
truthy(a) == a # null /\ a # ""

\* localStorage.removeItem inside _clearStorage's try/catch: a throw is
\* swallowed and the record stays
clearStorage(store, removeItemThrows) ==
    IF removeItemThrows THEN store ELSE <<>>

\* (bug) writes the record once and never overwrites it
saveToStorageOnce(store, qs, start, completed, att, save, setItemThrows) ==
    IF ~save \/ completed THEN store
    ELSE IF setItemThrows \/ store # <<>> THEN store
    ELSE << QuizState(qs, start, completed, att) >>

\* (bug) the completed quiz is saved as well
saveToStorageCompleted(store, qs, start, completed, att, save, setItemThrows) ==
    IF ~save THEN store
    ELSE IF setItemThrows THEN store
    ELSE << QuizState(qs, start, completed, att) >>

\* _saveToStorage: nothing when saveProgress is off or the quiz is completed;
\* a throwing setItem is swallowed and the old record stays
saveToStorage(store, qs, start, completed, att, save, setItemThrows) ==
    IF ~save \/ completed THEN store
    ELSE IF setItemThrows THEN store
    ELSE << QuizState(qs, start, completed, att) >>

\* the forEach of loadFromStorage over state.answers, from entry k on:
\* the questions after it, and whether a Question.setAnswer threw
RECURSIVE restoreAnswers(_, _, _)
restoreAnswers(qs, answers, k) ==
    IF k > Len(answers) THEN [qs |-> qs, threw |-> FALSE]
    ELSE LET a == answers[k]
             i == getQuestion(qs, a.id)
         IN  IF i # 0 /\ truthy(a.selectedAnswer)
             THEN IF includes(qs[i].options, a.selectedAnswer)
                  THEN restoreAnswers(
                         [qs EXCEPT ![i].selectedAnswer = a.selectedAnswer],
                         answers, k + 1)
                  ELSE [qs |-> qs, threw |-> TRUE]
             ELSE restoreAnswers(qs, answers, k + 1)

\* ------------------------------------------------------------------ state
VARIABLES
    questions,      \* Quiz._questions, each with its _selectedAnswer
    isCompleted,    \* Quiz._isCompleted
    score,          \* Quiz._score
    startTime,      \* Quiz._startTime
    endTime,        \* Quiz._endTime
    attempts,       \* Quiz._attempts
    saveProgress,   \* Quiz._config.saveProgress
    storage,        \* localStorage[storageKey]: <<>> or <<record>>
    now,            \* the wall clock new Date() reads
    last,           \* the step taken last: the call and what it returned
    submits,        \* successful submitQuiz calls on this instance
    faults,         \* storage calls that threw so far
    reloads,        \* page loads after the first
    app             \* the page: QuizApp._currentResult and what the DOM shows

vars == << questions, isCompleted, score, startTime, endTime, attempts,
           saveProgress, storage, now, last, submits, faults, reloads,
           app >>

\* what a call returned: "true", "false", "void", "throw", a number or a Result
Return(op, ret) == [op |-> op, ret |-> ret, err |-> "", result |-> <<>>]
Throw(op, err) == [op |-> op, ret |-> "throw", err |-> err, result |-> <<>>]

\* An operation that caught the error err, logged it and returned false
Caught(op, err) == [op |-> op, ret |-> "false", err |-> err, result |-> <<>>]

\* a storage call may throw only where the code makes the call, and only
\* while the fault budget lasts; Thrown counts it
MayThrow(throws, called) == throws => (called /\ faults < MaxFaults)
Thrown(throws) == IF throws THEN 1 ELSE 0

\* What _render puts on the page: per question the option shown as checked
\* (radio.checked = selectedAnswer === option, null for none) and whether the
\* submit buttons are disabled (_updateSubmitButtonState)
render(qs) ==
    [answers |-> [i \in DOMAIN qs |->
                    IF includes(qs[i].options, qs[i].selectedAnswer)
                    THEN qs[i].selectedAnswer ELSE null],
     submitDisabled |-> ~areAllQuestionsAnswered(qs)]

\* No page: a Quiz used on its own
NoApp ==
    [currentResult |-> <<>>, resultScreen |-> "hidden",
     rendered |-> [answers |-> <<>>, submitDisabled |-> TRUE]]

\* Quiz.constructor
Init ==
    /\ questions = InitialQuestions
    /\ isCompleted = FALSE
    /\ score = 0
    /\ startTime = nullTime
    /\ endTime = nullTime
    /\ attempts = 0
    /\ saveProgress \in BOOLEAN
    /\ storage = <<>>
    /\ now = 1
    /\ last = Return("constructor", "void")
    /\ submits = 0
    /\ faults = 0
    /\ reloads = 0
    /\ app = NoApp

\* a later page load: new Quiz(questions, options) while localStorage survives
Construct ==
    /\ reloads < MaxReloads
    /\ reloads' = reloads + 1
    /\ questions' = InitialQuestions
    /\ isCompleted' = FALSE
    /\ score' = 0
    /\ startTime' = nullTime
    /\ endTime' = nullTime
    /\ attempts' = 0
    /\ last' = Return("constructor", "void")
    /\ submits' = 0
    /\ UNCHANGED << saveProgress, storage, now, faults, app >>

\* time passes
Tick ==
    /\ now <= MaxTime
    /\ now' = now + 1
    /\ last' = Return("tick", "void")
    /\ UNCHANGED << questions, isCompleted, score, startTime, endTime, attempts,
                    saveProgress, storage, submits, faults, reloads, app >>

\* Quiz.setAnswer(questionId, answer)
Quiz_setAnswer(questionId, answer, setItemThrows) ==
    LET i == getQuestion(questions, questionId) IN
    IF i = 0
    THEN /\ MayThrow(setItemThrows, FALSE)
         /\ last' = Caught("setAnswer", "QuestionNotFound")
         /\ UNCHANGED << questions, isCompleted, score, startTime, endTime,
                         attempts, saveProgress, storage, now, submits,
                         faults, reloads >>
    ELSE IF ~includes(questions[i].options, answer)
    THEN /\ MayThrow(setItemThrows, FALSE)
         /\ last' = Caught("setAnswer", "InvalidAnswer")
         /\ UNCHANGED << questions, isCompleted, score, startTime, endTime,
                         attempts, saveProgress, storage, now, submits,
                         faults, reloads >>
    ELSE /\ MayThrow(setItemThrows, saveProgress /\ ~isCompleted)
         /\ faults' = faults + Thrown(setItemThrows)
         /\ questions' = [questions EXCEPT ![i].selectedAnswer = answer]
         /\ startTime' = IF startTime = nullTime THEN now ELSE startTime
         /\ storage' = IF saveProgress /\ ~isCompleted
                       THEN saveToStorage(storage, questions', startTime',
                                isCompleted, attempts, saveProgress, setItemThrows)
                       ELSE storage
         /\ last' = Return("setAnswer", "true")
         /\ UNCHANGED << isCompleted, score, endTime, attempts, saveProgress,
                         now, submits, reloads >>

\* Quiz.setAnswer called on a Quiz without a page around it
setAnswer(questionId, answer, setItemThrows) ==
    /\ Quiz_setAnswer(questionId, answer, setItemThrows)
    /\ UNCHANGED app

\* Quiz.resetAllAnswers
Quiz_resetAllAnswers(removeItemThrows) ==
    /\ MayThrow(removeItemThrows, TRUE)
    /\ faults' = faults + Thrown(removeItemThrows)
    /\ questions' = resetAnswers(questions)
    /\ isCompleted' = FALSE
    /\ score' = 0
    /\ startTime' = nullTime
    /\ endTime' = nullTime
    /\ storage' = clearStorage(storage, removeItemThrows)
    /\ last' = Return("resetAllAnswers", "void")
    /\ UNCHANGED << attempts, saveProgress, now, submits, reloads >>

\* (bug) a throwing removeItem aborts the reset before the answers are cleared
resetAllAnswersAborts(removeItemThrows) ==
    /\ MayThrow(removeItemThrows, TRUE)
    /\ faults' = faults + Thrown(removeItemThrows)
    /\ questions' = IF removeItemThrows THEN questions ELSE resetAnswers(questions)
    /\ isCompleted' = FALSE
    /\ score' = 0
    /\ startTime' = nullTime
    /\ endTime' = nullTime
    /\ storage' = clearStorage(storage, removeItemThrows)
    /\ last' = Return("resetAllAnswers", "void")
    /\ UNCHANGED << attempts, saveProgress, now, submits, reloads, app >>

\* (bug) the reset leaves _endTime as it was
resetAllAnswersKeepsEndTime(removeItemThrows) ==
    /\ MayThrow(removeItemThrows, TRUE)
    /\ faults' = faults + Thrown(removeItemThrows)
    /\ questions' = resetAnswers(questions)
    /\ isCompleted' = FALSE
    /\ score' = 0
    /\ startTime' = nullTime
    /\ storage' = clearStorage(storage, removeItemThrows)
    /\ last' = Return("resetAllAnswers", "void")
    /\ UNCHANGED << endTime, attempts, saveProgress, now, submits, reloads, app >>

\* Quiz.resetAllAnswers called on a Quiz without a page around it
resetAllAnswers(removeItemThrows) ==
    /\ Quiz_resetAllAnswers(removeItemThrows)
    /\ UNCHANGED app

\* Quiz.calculateScore
calculateScore ==
    /\ score' = CorrectCount(questions)
    /\ last' = Return("calculateScore", "number")
    /\ UNCHANGED << questions, isCompleted, startTime, endTime, attempts,
                    saveProgress, storage, now, submits, faults, reloads, app >>

\* (bug) the already-submitted check is missing
submitErrorNoCompletedCheck(qs, completed) ==
    IF ~areAllQuestionsAnswered(qs) THEN "IncompleteQuiz" ELSE ""

\* (bug) a fully answered quiz is taken for one that was submitted already
submitErrorNeverReady(qs, completed) ==
    IF ~areAllQuestionsAnswered(qs) THEN "IncompleteQuiz"
    ELSE "AlreadySubmitted"

\* the two precondition checks of Quiz.submitQuiz, in the order of the code
submitError(qs, completed) ==
    IF ~areAllQuestionsAnswered(qs) THEN "IncompleteQuiz"
    ELSE IF completed THEN "AlreadySubmitted"
    ELSE ""

\* Quiz._generateResults
generateResults(qs, sc, start, end, clock, att) ==
    [score |-> sc,
     total |-> Len(qs),
     percentage |-> Percentage(sc, Len(qs)),
     passed |-> isPassed(sc, Len(qs)),
     passingScore |-> PassingScore(Len(qs)),
     duration |-> Duration(start, end, clock),
     attempts |-> att]

\* Quiz.submitQuiz
Quiz_submitQuiz(removeItemThrows) ==
    IF submitError(questions, isCompleted) # ""
    THEN /\ MayThrow(removeItemThrows, FALSE)
         /\ last' = Throw("submitQuiz", submitError(questions, isCompleted))
         /\ UNCHANGED << questions, isCompleted, score, startTime, endTime,
                         attempts, saveProgress, storage, now, submits,
                         faults, reloads >>
    ELSE /\ attempts < MaxAttempts
         /\ submits < MaxAttempts
         /\ MayThrow(removeItemThrows, TRUE)
         /\ faults' = faults + Thrown(removeItemThrows)
         /\ score' = CorrectCount(questions)
         /\ isCompleted' = TRUE
         /\ endTime' = now
         /\ attempts' = attempts + 1
         /\ storage' = clearStorage(storage, removeItemThrows)
         /\ submits' = submits + 1
         /\ last' = [op |-> "submitQuiz", ret |-> "result", err |-> "",
                     result |-> << generateResults(questions, score', startTime,
                                       endTime', now, attempts') >>]
         /\ UNCHANGED << questions, startTime, saveProgress, now, reloads >>

\* Quiz.submitQuiz called on a Quiz without a page around it
submitQuiz(removeItemThrows) ==
    /\ Quiz_submitQuiz(removeItemThrows)
    /\ UNCHANGED app

\* (bug) adds the stored attempts to the current ones
restoredAttemptsAdded(state, att) == att + state.attempts

\* "Restore attempts" in loadFromStorage: the stored number replaces _attempts
\* (every record _saveToStorage writes carries a number)
restoredAttempts(state, att) == state.attempts

\* (bug) a completed record is restored like any other
isStaleNever(state) == FALSE

\* "Don't load if quiz was completed": the test loadFromStorage makes on the
\* parsed record
isStale(state) == state.isCompleted

\* What Quiz.loadFromStorage does to a Quiz with questions qs, _startTime
\* start and _attempts att when the storage holds store: the fields after the
\* call, the value returned, and which storage calls the code made
loadOutcome(qs, start, att, save, store, getItemThrows, removeItemThrows) ==
    LET unchanged(ret, getCalled) ==
            [questions |-> qs, startTime |-> start, attempts |-> att,
             storage |-> store, ret |-> ret,
             getItem |-> getCalled, removeItem |-> FALSE]
        cleared(qs2) ==
            \* _clearStorage, return false
            [questions |-> qs2, startTime |-> start, attempts |-> att,
             storage |-> clearStorage(store, removeItemThrows), ret |-> "false",
             getItem |-> TRUE, removeItem |-> TRUE]
    IN  IF ~save THEN unchanged("false", FALSE)
        ELSE IF getItemThrows THEN cleared(qs)
        ELSE IF store = <<>> THEN unchanged("false", TRUE)
        ELSE LET state == store[1]
                 r == restoreAnswers(qs, state.answers, 1)
             IN  IF isStale(state) THEN cleared(qs)
                 ELSE IF r.threw
                 THEN \* the answers restored before the throw stay
                      cleared(r.qs)
                 ELSE [questions |-> r.qs,
                       startTime |-> IF state.startTime # <<>>
                                     THEN parseDate(state.startTime)
                                     ELSE start,
                       attempts |-> restoredAttempts(state, att),
                       storage |-> store, ret |-> "true",
                       getItem |-> TRUE, removeItem |-> FALSE]

\* (bug) the record is read although saveProgress is off
loadFromStorageIgnoresOption(getItemThrows, removeItemThrows) ==
    LET o == loadOutcome(questions, startTime, attempts, TRUE, storage,
                         getItemThrows, removeItemThrows)
    IN  /\ getItemThrows => o.getItem
        /\ removeItemThrows => o.removeItem
        /\ faults + Thrown(getItemThrows) + Thrown(removeItemThrows) <= MaxFaults
        /\ faults' = faults + Thrown(getItemThrows) + Thrown(removeItemThrows)
        /\ questions' = o.questions
        /\ startTime' = o.startTime
        /\ attempts' = o.attempts
        /\ storage' = o.storage
        /\ last' = Return("loadFromStorage", o.ret)
        /\ UNCHANGED << isCompleted, score, endTime, saveProgress, now, submits,
                        reloads, app >>

\* Quiz.loadFromStorage
loadFromStorage(getItemThrows, removeItemThrows) ==
    LET o == loadOutcome(questions, startTime, attempts, saveProgress, storage,
                         getItemThrows, removeItemThrows)
    IN  /\ getItemThrows => o.getItem
        /\ removeItemThrows => o.removeItem
        /\ faults + Thrown(getItemThrows) + Thrown(removeItemThrows) <= MaxFaults
        /\ faults' = faults + Thrown(getItemThrows) + Thrown(removeItemThrows)
        /\ questions' = o.questions
        /\ startTime' = o.startTime
        /\ attempts' = o.attempts
        /\ storage' = o.storage
        /\ last' = Return("loadFromStorage", o.ret)
        /\ UNCHANGED << isCompleted, score, endTime, saveProgress, now, submits,
                        reloads, app >>

\* (bug) adding to a completed quiz reopens it instead of throwing
addQuestionReopens(question) ==
    /\ Len(questions) < MaxQuestions
    /\ questions' = Append(questions, question)
    /\ isCompleted' = FALSE
    /\ last' = Return("addQuestion", "true")
    /\ UNCHANGED << score, startTime, endTime, attempts, saveProgress, storage,
                    now, submits, faults, reloads, app >>

\* Quiz.addQuestion(question)
addQuestion(question) ==
    IF isCompleted
    THEN /\ last' = Throw("addQuestion", "QuizAlreadyCompleted")
         /\ UNCHANGED << questions, isCompleted, score, startTime, endTime,
                         attempts, saveProgress, storage, now, submits,
                         faults, reloads, app >>
    ELSE /\ Len(questions) < MaxQuestions
         /\ questions' = Append(questions, question)
         /\ last' = Return("addQuestion", "true")
         /\ UNCHANGED << isCompleted, score, startTime, endTime, attempts,
                         saveProgress, storage, now, submits, faults, reloads,
                         app >>

\* Quiz.removeQuestion(questionId)
removeQuestion(questionId) ==
    LET index == findIndex(questions, questionId) IN
    IF isCompleted
    THEN /\ last' = Throw("removeQuestion", "QuizAlreadyCompleted")
         /\ UNCHANGED << questions, isCompleted, score, startTime, endTime,
                         attempts, saveProgress, storage, now, submits,
                         faults, reloads, app >>
    ELSE IF index # 0
    THEN /\ questions' = SubSeq(questions, 1, index - 1)
                           \o SubSeq(questions, index + 1, Len(questions))
         /\ last' = Return("removeQuestion", "true")
         /\ UNCHANGED << isCompleted, score, startTime, endTime, attempts,
                         saveProgress, storage, now, submits, faults, reloads,
                         app >>
    ELSE /\ last' = Return("removeQuestion", "false")
         /\ UNCHANGED << questions, isCompleted, score, startTime, endTime,
                         attempts, saveProgress, storage, now, submits,
                         faults, reloads, app >>

\* Quiz.getProgressPercentage: Math.round((answered / length) * 100)
getProgressPercentage(qs) == Percentage(getAnsweredCount(qs), Len(qs))

\* The object Quiz.getStatistics returns (passed: <<>> for null; without
\* averageTimePerQuestion and questionTypes)
Statistics(qs, completed, sc, start, end, clock, att) ==
    [totalQuestions |-> Len(qs),
     answeredQuestions |-> getAnsweredCount(qs),
     correctAnswers |-> IF completed THEN sc ELSE 0,
     progress |-> getProgressPercentage(qs),
     isCompleted |-> completed,
     passed |-> IF completed THEN << isPassed(sc, Len(qs)) >> ELSE <<>>,
     duration |-> Duration(start, end, clock),
     attempts |-> att]

\* (bug) the statistics are taken after a recount that writes _score
getStatisticsRecounts ==
    /\ score' = CorrectCount(questions)
    /\ last' = [op |-> "getStatistics", ret |-> "object", err |-> "",
                result |-> << Statistics(questions, isCompleted, score',
                                 startTime, endTime, now, attempts) >>]
    /\ UNCHANGED << questions, isCompleted, startTime, endTime, attempts,
                    saveProgress, storage, now, submits, faults, reloads, app >>

\* Quiz.getStatistics
getStatistics ==
    /\ last' = [op |-> "getStatistics", ret |-> "object", err |-> "",
                result |-> << Statistics(questions, isCompleted, score,
                                 startTime, endTime, now, attempts) >>]
    /\ UNCHANGED << questions, isCompleted, score, startTime, endTime, attempts,
                    saveProgress, storage, now, submits, faults, reloads, app >>

\* Quiz.exportData
exportData ==
    /\ last' = Return("exportData", "string")
    /\ UNCHANGED << questions, isCompleted, score, startTime, endTime, attempts,
                    saveProgress, storage, now, submits, faults, reloads, app >>

\* QuizApp._handleVisibilityChange: the tab is hidden and autoSave is on
\* (QuizApp passes autoSave as the Quiz's saveProgress), so _saveToStorage runs
handleVisibilityChange(setItemThrows) ==
    /\ saveProgress
    /\ MayThrow(setItemThrows, ~isCompleted)
    /\ faults' = faults + Thrown(setItemThrows)
    /\ storage' = saveToStorage(storage, questions, startTime, isCompleted,
                                attempts, saveProgress, setItemThrows)
    /\ last' = Return("_saveToStorage", "void")
    /\ UNCHANGED << questions, isCompleted, score, startTime, endTime, attempts,
                    saveProgress, now, submits, reloads, app >>

\* One Quiz instance under every public operation, with storage calls that
\* may throw
Next ==
    \/ \E questionId \in QuestionIds, answer \in Answers, setItemThrows \in BOOLEAN :
          setAnswer(questionId, answer, setItemThrows)
    \/ \E removeItemThrows \in BOOLEAN : resetAllAnswers(removeItemThrows)
    \/ calculateScore
    \/ \E removeItemThrows \in BOOLEAN : submitQuiz(removeItemThrows)
    \/ \E getItemThrows \in BOOLEAN, removeItemThrows \in BOOLEAN :
          loadFromStorage(getItemThrows, removeItemThrows)
    \/ \E question \in ExtraQuestions : addQuestion(question)
    \/ \E questionId \in QuestionIds : removeQuestion(questionId)
    \/ getStatistics
    \/ exportData
    \/ \E setItemThrows \in BOOLEAN : handleVisibilityChange(setItemThrows)

Spec == Init /\ [][Next]_vars

\* Sessions over several page loads: the Quiz is constructed again while the
\* stored record survives and the clock runs; storage works
NextReload ==
    \/ Construct
    \/ Tick
    \/ \E questionId \in QuestionIds, answer \in Answers :
          setAnswer(questionId, answer, FALSE)
    \/ resetAllAnswers(FALSE)
    \/ submitQuiz(FALSE)
    \/ loadFromStorage(FALSE, FALSE)
    \/ handleVisibilityChange(FALSE)

SpecReload == Init /\ [][NextReload]_vars

\* QuizApp.destroy, which the page's beforeunload listener calls: the record
\* is removed and the Quiz and the current result are dropped (the Quiz
\* fields keep their last values until the next page load replaces them)
destroy(removeItemThrows) ==
    /\ last.op # "destroy"
    /\ MayThrow(removeItemThrows, TRUE)
    /\ faults' = faults + Thrown(removeItemThrows)
    /\ storage' = clearStorage(storage, removeItemThrows)
    /\ last' = Return("destroy", "void")
    /\ app' = [app EXCEPT !.currentResult = <<>>]
    /\ UNCHANGED << questions, isCompleted, score, startTime, endTime,
                    attempts, saveProgress, now, submits, reloads >>

\* (bug) the questions are rendered before the stored state is loaded
initializeRendersFirst(getItemThrows, removeItemThrows) ==
    LET o == loadOutcome(InitialQuestions, nullTime, 0, saveProgress, storage,
                         getItemThrows, removeItemThrows)
    IN  /\ last.op = "destroy"
        /\ reloads < MaxReloads
        /\ reloads' = reloads + 1
        /\ getItemThrows => o.getItem
        /\ removeItemThrows => o.removeItem
        /\ faults + Thrown(getItemThrows) + Thrown(removeItemThrows) <= MaxFaults
        /\ faults' = faults + Thrown(getItemThrows) + Thrown(removeItemThrows)
        /\ questions' = o.questions
        /\ isCompleted' = FALSE
        /\ score' = 0
        /\ startTime' = o.startTime
        /\ endTime' = nullTime
        /\ attempts' = o.attempts
        /\ storage' = o.storage
        /\ submits' = 0
        /\ last' = Return("initialize", o.ret)
        /\ app' = [currentResult |-> <<>>, resultScreen |-> "hidden",
                   rendered |-> render(InitialQuestions)]
        /\ UNCHANGED << saveProgress, now >>

\* The next page load: initializeApp constructs the QuizApp, whose
\* _initialize constructs the Quiz (_initializeQuiz), then calls
\* loadFromStorage when autoSave is on (_loadQuizState) and then renders
\* (_render); the page comes up with the quiz screen shown and the result
\* screen hidden
initialize(getItemThrows, removeItemThrows) ==
    LET o == loadOutcome(InitialQuestions, nullTime, 0, saveProgress, storage,
                         getItemThrows, removeItemThrows)
    IN  /\ last.op = "destroy"
        /\ reloads < MaxReloads
        /\ reloads' = reloads + 1
        /\ getItemThrows => o.getItem
        /\ removeItemThrows => o.removeItem
        /\ faults + Thrown(getItemThrows) + Thrown(removeItemThrows) <= MaxFaults
        /\ faults' = faults + Thrown(getItemThrows) + Thrown(removeItemThrows)
        /\ questions' = o.questions
        /\ isCompleted' = FALSE
        /\ score' = 0
        /\ startTime' = o.startTime
        /\ endTime' = nullTime
        /\ attempts' = o.attempts
        /\ storage' = o.storage
        /\ submits' = 0
        /\ last' = Return("initialize", o.ret)
        /\ app' = [currentResult |-> <<>>, resultScreen |-> "hidden",
                   rendered |-> render(o.questions)]
        /\ UNCHANGED << saveProgress, now >>

\* QuizApp._handleAnswerChange: the learner picks an option, which the browser
\* shows as checked; after a setAnswer that returned true the submit buttons
\* are updated
handleAnswerChange(questionId, answer) ==
    /\ last.op # "destroy"
    /\ Quiz_setAnswer(questionId, answer, FALSE)
    /\ app' = IF last'.ret = "true"
              THEN [app EXCEPT !.rendered = render(questions')]
              ELSE app

\* (bug) the reset leaves _currentResult as it was
handleResetKeepsResult(confirmed) ==
    /\ last.op # "destroy"
    /\ IF getAnsweredCount(questions) > 0 /\ ~confirmed
       THEN /\ last' = Return("handleReset", "void")
            /\ UNCHANGED << questions, isCompleted, score, startTime, endTime,
                            attempts, saveProgress, storage, now, submits,
                            faults, reloads, app >>
       ELSE /\ getAnsweredCount(questions) = 0 => confirmed
            /\ Quiz_resetAllAnswers(FALSE)
            /\ app' = [app EXCEPT !.rendered = render(questions')]

\* QuizApp._handleReset with confirmReset on, as initializeApp sets it: while
\* an answer is selected the learner is asked and may decline (confirmed
\* false), and then nothing happens
handleReset(confirmed) ==
    /\ last.op # "destroy"
    /\ IF getAnsweredCount(questions) > 0 /\ ~confirmed
       THEN /\ last' = Return("handleReset", "void")
            /\ UNCHANGED << questions, isCompleted, score, startTime, endTime,
                            attempts, saveProgress, storage, now, submits,
                            faults, reloads, app >>
       ELSE /\ getAnsweredCount(questions) = 0 => confirmed
            /\ Quiz_resetAllAnswers(FALSE)
            /\ app' = [app EXCEPT !.currentResult = <<>>,
                             !.rendered = render(questions')]

\* QuizApp._handleRetake
handleRetake ==
    /\ last.op # "destroy"
    /\ Quiz_resetAllAnswers(FALSE)
    /\ app' = [currentResult |-> <<>>, resultScreen |-> "hidden",
               rendered |-> render(questions')]

\* QuizApp._handleSubmit: an error message while a question is unanswered,
\* submitQuiz otherwise, whose Result is kept and shown on the result screen
\* and whose error is caught
handleSubmit ==
    /\ last.op # "destroy"
    /\ IF ~areAllQuestionsAnswered(questions)
       THEN /\ last' = Return("handleSubmit", "void")
            /\ UNCHANGED << questions, isCompleted, score, startTime, endTime,
                            attempts, saveProgress, storage, now, submits,
                            faults, reloads, app >>
       ELSE /\ Quiz_submitQuiz(FALSE)
            /\ app' = IF last'.ret = "result"
                      THEN [app EXCEPT !.currentResult = last'.result,
                                       !.resultScreen = "visible"]
                      ELSE app

\* the keys of a keydown event: Ctrl+Enter, Ctrl+r, Escape and any other
Keys == {"Ctrl+Enter", "Ctrl+r", "Escape", "a"}

\* QuizApp._handleKeyboard: nothing while the result screen is not hidden;
\* otherwise Ctrl+Enter submits when every question is answered, Ctrl+r
\* resets and Escape retakes when a current result is held
handleKeyboard(key, confirmed) ==
    /\ last.op # "destroy"
    /\ IF app.resultScreen # "hidden"
       THEN /\ confirmed
            /\ last' = Return("handleKeyboard", "void")
            /\ UNCHANGED << questions, isCompleted, score, startTime, endTime,
                            attempts, saveProgress, storage, now, submits,
                            faults, reloads, app >>
       ELSE IF key = "Ctrl+Enter" /\ areAllQuestionsAnswered(questions)
       THEN confirmed /\ handleSubmit
       ELSE IF key = "Ctrl+r"
       THEN handleReset(confirmed)
       ELSE IF key = "Escape" /\ app.currentResult # <<>>
       THEN confirmed /\ handleRetake
       ELSE /\ confirmed
            /\ last' = Return("handleKeyboard", "void")
            /\ UNCHANGED << questions, isCompleted, score, startTime, endTime,
                            attempts, saveProgress, storage, now, submits,
                            faults, reloads, app >>

\* The page after its first load: the Quiz of the initial questions, nothing
\* stored, the questions rendered, the quiz screen shown
InitApp ==
    /\ questions = InitialQuestions
    /\ isCompleted = FALSE
    /\ score = 0
    /\ startTime = nullTime
    /\ endTime = nullTime
    /\ attempts = 0
    /\ saveProgress \in BOOLEAN
    /\ storage = <<>>
    /\ now = 1
    /\ last = Return("constructor", "void")
    /\ submits = 0
    /\ faults = 0
    /\ reloads = 0
    /\ app = [currentResult |-> <<>>, resultScreen |-> "hidden",
              rendered |-> render(InitialQuestions)]

\* The page over several loads: the learner answers, resets, submits, retakes
\* and presses keys while the page lives, the page is unloaded, and it is
\* loaded again
NextApp ==
    \/ \E questionId \in QuestionIds, answer \in Answers :
          handleAnswerChange(questionId, answer)
    \/ \E confirmed \in BOOLEAN : handleReset(confirmed)
    \/ handleSubmit
    \/ handleRetake
    \/ \E key \in Keys, confirmed \in BOOLEAN : handleKeyboard(key, confirmed)
    \/ \E removeItemThrows \in BOOLEAN : destroy(removeItemThrows)
    \/ \E getItemThrows \in BOOLEAN, removeItemThrows \in BOOLEAN :
          initialize(getItemThrows, removeItemThrows)

SpecApp == InitApp /\ [][NextApp]_vars

\* A question set with an option that is the empty string: _validateInput
\* asks only that the correct answer is non-empty and among the options
BlankOptionQuestions ==
    << MultipleChoiceQuestion(1, <<"", "Paris">>, "Paris"),
       TrueFalseQuestion(2, "False") >>

\* Answers the learner picks from these questions
BlankOptionAnswers == {"", "Paris", "False"}

\* Records found under the storage key that this Quiz did not write: one left
\* by a finished quiz, one written by a later version of the page, and one
\* written for a question 2 that offered other options
CompletedRecord ==
    [answers |-> << [id |-> 1, selectedAnswer |-> "Paris"],
                    [id |-> 2, selectedAnswer |-> "False"] >>,
     startTime |-> <<1>>, isCompleted |-> TRUE, attempts |-> 1,
     version |-> "1.0"]
LaterVersionRecord ==
    [answers |-> << [id |-> 1, selectedAnswer |-> "Paris"],
                    [id |-> 2, selectedAnswer |-> "False"] >>,
     startTime |-> <<1>>, isCompleted |-> FALSE, attempts |-> 1,
     version |-> "2.0"]
OtherOptionsRecord ==
    [answers |-> << [id |-> 1, selectedAnswer |-> "Paris"],
                    [id |-> 2, selectedAnswer |-> "Maybe"] >>,
     startTime |-> <<1>>, isCompleted |-> FALSE, attempts |-> 1,
     version |-> "1.0"]
ForeignRecords == {CompletedRecord, LaterVersionRecord, OtherOptionsRecord}

\* The Quiz of the blank-option questions, saving its progress
InitStored ==
    /\ questions = BlankOptionQuestions
    /\ isCompleted = FALSE
    /\ score = 0
    /\ startTime = nullTime
    /\ endTime = nullTime
    /\ attempts = 0
    /\ saveProgress = TRUE
    /\ storage = <<>>
    /\ now = 1
    /\ last = Return("constructor", "void")
    /\ submits = 0
    /\ faults = 0
    /\ reloads = 0
    /\ app = NoApp

\* new Quiz(questions, options) with the same question set, each question
\* built anew (no selected answer), while localStorage survives
ConstructSame ==
    /\ reloads < MaxReloads
    /\ reloads' = reloads + 1
    /\ questions' = [i \in DOMAIN questions |->
                       [questions[i] EXCEPT !.selectedAnswer = null]]
    /\ isCompleted' = FALSE
    /\ score' = 0
    /\ startTime' = nullTime
    /\ endTime' = nullTime
    /\ attempts' = 0
    /\ last' = Return("constructor", "void")
    /\ submits' = 0
    /\ UNCHANGED << saveProgress, storage, now, faults, app >>

\* Something else writes the record under the storage key (localStorage is
\* shared by every page of the origin)
foreignWrite(record) ==
    /\ storage' = << record >>
    /\ last' = Return("foreignWrite", "void")
    /\ UNCHANGED << questions, isCompleted, score, startTime, endTime,
                    attempts, saveProgress, now, submits, faults, reloads,
                    app >>

\* A Quiz and the records it may find in storage: its own and foreign ones
NextStored ==
    \/ ConstructSame
    \/ \E questionId \in QuestionIds, answer \in BlankOptionAnswers :
          setAnswer(questionId, answer, FALSE)
    \/ \E record \in ForeignRecords : foreignWrite(record)
    \/ \E getItemThrows \in BOOLEAN, removeItemThrows \in BOOLEAN :
          loadFromStorage(getItemThrows, removeItemThrows)

SpecStored == InitStored /\ [][NextStored]_vars

\* ------------------------------------------------------- quizzes to score
\* Numbers of questions of the quizzes that are scored
ScoreTotals == {1, 2, 3, 8, 10, 12, 40}

\* A quiz of total true/false questions, every one answered, the first
\* correct of them correctly
ScoredQuestions(total, correct) ==
    [i \in 1..total |->
       [TrueFalseQuestion(i, "True") EXCEPT
          !.selectedAnswer = IF i <= correct THEN "True" ELSE "False"]]

\* A Quiz (saveProgress off) whose questions have all been answered
InitScore ==
    /\ questions \in UNION { {ScoredQuestions(total, correct) :
                                  correct \in 0..total} :
                               total \in ScoreTotals }
    /\ isCompleted = FALSE
    /\ score = 0
    /\ startTime = 1
    /\ endTime = nullTime
    /\ attempts = 0
    /\ saveProgress = FALSE
    /\ storage = <<>>
    /\ now = 1
    /\ last = Return("setAnswer", "true")
    /\ submits = 0
    /\ faults = 0
    /\ reloads = 0
    /\ app = NoApp

\* The answered quiz is submitted, and reset afterwards
NextScore ==
    \/ submitQuiz(FALSE)
    \/ resetAllAnswers(FALSE)

SpecScore == InitScore /\ [][NextScore]_vars

\* ------------------------------------------------- one Question by itself
\* Arguments handed to the question constructors: 0 is a falsy id, "" a
\* falsy text, null and "" falsy correct answers; option lists of 1, 2, 6
\* and 7 entries, one with a repeated value and one with an empty string
\* ("true" among the answers for a true/false question stands for the boolean
\* true, which is not the string "True")
QuestionInputIds == {0, 1}
QuestionTexts == {"", "Q"}
OptionLists ==
    { << "Paris" >>,
      << "London", "Paris" >>,
      << "Paris", "Paris" >>,
      << "", "Paris" >>,
      << "A", "B", "C", "D", "London", "Paris" >>,
      << "A", "B", "C", "D", "E", "London", "Paris" >> }
CorrectAnswers == {null, "", "Paris", "Rome"}
BooleanAnswers == {"True", "False", "Maybe", "", "true"}
QuestionAnswers == {"", "London", "Paris", "True", "Maybe"}

\* (bug) the correct answer is not looked up in the options
validateInputNoMembership(id, text, options, correctAnswer) ==
    IF id = 0 \/ text = "" \/ ~truthy(correctAnswer)
    THEN "InvalidParameters"
    ELSE ""

\* Question._validateInput: the error it throws, "" for none
validateInput(id, text, options, correctAnswer) ==
    IF id = 0 \/ text = "" \/ ~truthy(correctAnswer)
    THEN "InvalidParameters"
    ELSE IF ~includes(options, correctAnswer) THEN "CorrectAnswerNotInOptions"
    ELSE ""

\* (bug) the lower limit of the option count is not tested
validateMultipleChoiceOptionsNoMinimum(options) ==
    IF Len(options) > 6 THEN "OptionCount" ELSE ""

\* MultipleChoiceQuestion._validateMultipleChoiceOptions
validateMultipleChoiceOptions(options) ==
    IF Len(options) < 2 \/ Len(options) > 6 THEN "OptionCount" ELSE ""

\* The error new MultipleChoiceQuestion(...) ends with: the parent
\* constructor validates first, then the option count is tested
MultipleChoiceError(id, text, options, correctAnswer) ==
    IF validateInput(id, text, options, correctAnswer) # ""
    THEN validateInput(id, text, options, correctAnswer)
    ELSE validateMultipleChoiceOptions(options)

\* The error new TrueFalseQuestion(...) ends with: the correct answer is
\* tested before the parent constructor runs
TrueFalseError(id, text, correctAnswer) ==
    IF ~includes(<<"True", "False">>, correctAnswer)
    THEN "CorrectAnswerNotBoolean"
    ELSE validateInput(id, text, <<"True", "False">>, correctAnswer)

\* (bug) resetAnswer leaves the answer in place
resetAnswerKeeps(q) == q

\* Question.resetAnswer
resetAnswer(q) == [q EXCEPT !.selectedAnswer = null]

\* No Question has been constructed yet; questions holds the one Question
\* under study once a constructor has succeeded
InitQuestion ==
    /\ questions = <<>>
    /\ isCompleted = FALSE
    /\ score = 0
    /\ startTime = nullTime
    /\ endTime = nullTime
    /\ attempts = 0
    /\ saveProgress = FALSE
    /\ storage = <<>>
    /\ now = 1
    /\ last = Return("none", "void")
    /\ submits = 0
    /\ faults = 0
    /\ reloads = 0
    /\ app = NoApp

\* new MultipleChoiceQuestion(id, text, options, correctAnswer)
NewMultipleChoiceQuestion(id, text, options, correctAnswer) ==
    /\ IF MultipleChoiceError(id, text, options, correctAnswer) # ""
       THEN /\ last' = Throw("MultipleChoiceQuestion",
                             MultipleChoiceError(id, text, options, correctAnswer))
            /\ UNCHANGED questions
       ELSE /\ questions' = << MultipleChoiceQuestion(id, options, correctAnswer) >>
            /\ last' = Return("MultipleChoiceQuestion", "object")
    /\ UNCHANGED << isCompleted, score, startTime, endTime, attempts,
                    saveProgress, storage, now, submits, faults, reloads, app >>

\* new TrueFalseQuestion(id, text, correctAnswer)
NewTrueFalseQuestion(id, text, correctAnswer) ==
    /\ IF TrueFalseError(id, text, correctAnswer) # ""
       THEN /\ last' = Throw("TrueFalseQuestion",
                             TrueFalseError(id, text, correctAnswer))
            /\ UNCHANGED questions
       ELSE /\ questions' = << TrueFalseQuestion(id, correctAnswer) >>
            /\ last' = Return("TrueFalseQuestion", "object")
    /\ UNCHANGED << isCompleted, score, startTime, endTime, attempts,
                    saveProgress, storage, now, submits, faults, reloads, app >>

\* Question.setAnswer(answer) on the Question under study
QuestionSetAnswer(answer) ==
    /\ questions # <<>>
    /\ IF includes(questions[1].options, answer)
       THEN /\ questions' = << [questions[1] EXCEPT !.selectedAnswer = answer] >>
            /\ last' = Return("Question.setAnswer", "void")
       ELSE /\ last' = Throw("Question.setAnswer", "InvalidAnswer")
            /\ UNCHANGED questions
    /\ UNCHANGED << isCompleted, score, startTime, endTime, attempts,
                    saveProgress, storage, now, submits, faults, reloads, app >>

\* TrueFalseQuestion.setAnswerFromBoolean(booleanAnswer)
setAnswerFromBoolean(booleanAnswer) ==
    LET stringAnswer == IF booleanAnswer THEN "True" ELSE "False" IN
    /\ questions # <<>>
    /\ questions[1].type = "true-false"
    /\ IF includes(questions[1].options, stringAnswer)
       THEN /\ questions' = << [questions[1] EXCEPT
                                  !.selectedAnswer = stringAnswer] >>
            /\ last' = Return("setAnswerFromBoolean", "void")
       ELSE /\ last' = Throw("setAnswerFromBoolean", "InvalidAnswer")
            /\ UNCHANGED questions
    /\ UNCHANGED << isCompleted, score, startTime, endTime, attempts,
                    saveProgress, storage, now, submits, faults, reloads, app >>

\* Question.resetAnswer() on the Question under study
QuestionResetAnswer ==
    /\ questions # <<>>
    /\ questions' = << resetAnswer(questions[1]) >>
    /\ last' = Return("Question.resetAnswer", "void")
    /\ UNCHANGED << isCompleted, score, startTime, endTime, attempts,
                    saveProgress, storage, now, submits, faults, reloads, app >>

\* Question.isCorrect() on the Question under study
QuestionIsCorrect ==
    /\ questions # <<>>
    /\ last' = Return("Question.isCorrect",
                      IF isCorrect(questions[1]) THEN "true" ELSE "false")
    /\ UNCHANGED << questions, isCompleted, score, startTime, endTime,
                    attempts, saveProgress, storage, now, submits, faults,
                    reloads, app >>

\* Questions are constructed, answered, reset and asked whether they are
\* answered correctly
NextQuestion ==
    \/ \E id \in QuestionInputIds, text \in QuestionTexts,
          options \in OptionLists, correctAnswer \in CorrectAnswers :
          NewMultipleChoiceQuestion(id, text, options, correctAnswer)
    \/ \E id \in QuestionInputIds, text \in QuestionTexts,
          correctAnswer \in BooleanAnswers :
          NewTrueFalseQuestion(id, text, correctAnswer)
    \/ \E answer \in QuestionAnswers : QuestionSetAnswer(answer)
    \/ \E booleanAnswer \in BOOLEAN : setAnswerFromBoolean(booleanAnswer)
    \/ QuestionResetAnswer
    \/ QuestionIsCorrect

SpecQuestion == InitQuestion /\ [][NextQuestion]_vars

\* ---------------------------------------- a Quiz that does not save progress
\* new Quiz(questions, {saveProgress: false}) on the initial questions
InitNoSave ==
    /\ questions = InitialQuestions
    /\ isCompleted = FALSE
    /\ score = 0
    /\ startTime = nullTime
    /\ endTime = nullTime
    /\ attempts = 0
    /\ saveProgress = FALSE
    /\ storage = <<>>
    /\ now = 1
    /\ last = Return("constructor", "void")
    /\ submits = 0
    /\ faults = 0
    /\ reloads = 0
    /\ app = NoApp

\* The operations of the Quiz that touch storage, next to records that
\* something else leaves under the storage key
NextNoSave ==
    \/ \E questionId \in QuestionIds, answer \in Answers :
          setAnswer(questionId, answer, FALSE)
    \/ resetAllAnswers(FALSE)
    \/ submitQuiz(FALSE)
    \/ \E record \in ForeignRecords : foreignWrite(record)
    \/ loadFromStorage(FALSE, FALSE)

SpecNoSave == InitNoSave /\ [][NextNoSave]_vars

\* ------------------------------------------- a caller who finishes the quiz
\* The caller answers a question that has no answer yet with one of its
\* options (storage may fail underneath)
AnswerUnanswered ==
    \E i \in DOMAIN questions :
       /\ questions[i].selectedAnswer = null
       /\ \E answer \in Answers, setItemThrows \in BOOLEAN :
             /\ includes(questions[i].options, answer)
             /\ setAnswer(questions[i].id, answer, setItemThrows)

\* The caller calls submitQuiz (storage may fail underneath)
Submit == \E removeItemThrows \in BOOLEAN : submitQuiz(removeItemThrows)

\* The Quiz of the initial questions under any calls of setAnswer, submitQuiz
\* and resetAllAnswers
NextLive ==
    \/ Tick
    \/ \E questionId \in QuestionIds, answer \in Answers,
          setItemThrows \in BOOLEAN :
          setAnswer(questionId, answer, setItemThrows)
    \/ \E removeItemThrows \in BOOLEAN : resetAllAnswers(removeItemThrows)
    \/ Submit

\* The caller keeps answering what is unanswered and keeps submitting
SpecLive ==
    /\ Init
    /\ [][NextLive]_vars
    /\ WF_vars(AnswerUnanswered)
    /\ WF_vars(Submit)

\* ------------------------------------------------------------- properties
\* what the claims speak of, stated on the state itself
AllAnswered == \A i \in DOMAIN questions : questions[i].selectedAnswer # null
NumCorrect ==
    Cardinality({i \in DOMAIN questions :
                    questions[i].selectedAnswer = questions[i].correctAnswer})
SubmitSucceeded == last.op = "submitQuiz" /\ last.ret = "result"

\* C1: a submitQuiz call returns a Result exactly when, at the call, every
\* question is answered and the quiz is not completed; otherwise it throws,
\* IncompleteQuiz when a question is unanswered and AlreadySubmitted when the
\* quiz is completed.
C1_SubmitSucceedsIff ==
    [][ last'.op = "submitQuiz" =>
          /\ (last'.ret = "result") <=> (AllAnswered /\ ~isCompleted)
          /\ (last'.ret = "throw") <=> ~(AllAnswered /\ ~isCompleted)
          /\ ~AllAnswered => last'.err = "IncompleteQuiz"
          /\ isCompleted => last'.err = "AlreadySubmitted" ]_vars

\* C1 witness: a submission succeeded on a quiz of two answered questions
C1_Witness == SubmitSucceeded /\ isCompleted /\ Len(questions) = 2

\* C2 as claimed: a successful submitQuiz sets score to the number of correct
\* answers, completed to true, endTime to the clock, attempts one higher,
\* returns these in the Result and leaves no persisted record.
C2_Original ==
    [][ (last'.op = "submitQuiz" /\ last'.ret = "result") =>
          /\ score' = NumCorrect
          /\ isCompleted'
          /\ endTime' = now
          /\ attempts' = attempts + 1
          /\ last'.result[1].score = score'
          /\ last'.result[1].total = Len(questions)
          /\ last'.result[1].attempts = attempts'
          /\ storage' = <<>> ]_vars

\* C2 amended: as claimed, except that the persisted record is gone only when
\* the storage removal did not throw; when it throws the record stays as it was.
C2_SubmitEffect ==
    [][ (last'.op = "submitQuiz" /\ last'.ret = "result") =>
          /\ score' = NumCorrect
          /\ isCompleted'
          /\ endTime' = now
          /\ attempts' = attempts + 1
          /\ last'.result[1].score = score'
          /\ last'.result[1].total = Len(questions)
          /\ last'.result[1].attempts = attempts'
          /\ storage' = IF faults' > faults THEN storage ELSE <<>> ]_vars

\* C2 witness: a second submission (attempts 2) scored one correct answer
\* out of two and left no record
C2_Witness ==
    /\ SubmitSucceeded /\ score = 1 /\ NumCorrect = 1 /\ attempts = 2
    /\ last.result[1].total = 2 /\ storage = <<>>

\* C3: a submitQuiz call that throws, and any submitQuiz call on a completed
\* quiz, changes neither score, completed, startTime, endTime, attempts, any
\* selectedAnswer nor the persisted record.
C3_FailedSubmitChangesNothing ==
    [][ (last'.op = "submitQuiz" /\ (last'.ret = "throw" \/ isCompleted)) =>
          UNCHANGED << questions, isCompleted, score, startTime, endTime,
                       attempts, storage >> ]_vars

\* C3 witness: a second submitQuiz was rejected
C3_Witness ==
    /\ last.op = "submitQuiz" /\ last.err = "AlreadySubmitted"
    /\ isCompleted /\ attempts = 1

\* C4 as claimed: on a completed quiz every Quiz.setAnswer call is rejected
\* (returns false) and no selectedAnswer changes.
C4_SetAnswerRejectedWhenCompleted ==
    [][ (isCompleted /\ last'.op = "setAnswer") =>
          (last'.ret = "false" /\ questions' = questions) ]_vars

\* C5 as claimed: whenever the quiz is completed, score is the number of
\* questions whose current selectedAnswer is their correctAnswer.
C5_ScoreIsCorrectCountWhenCompleted ==
    isCompleted => score = NumCorrect

\* C6 as claimed: whenever the quiz is not completed, score is 0.
C6_ScoreZeroUntilCompleted ==
    ~isCompleted => score = 0

\* C7: completed turns true only in a submitQuiz call that returns a Result,
\* and turns false again only in a resetAllAnswers call.
C7_CompletedOnlyBySubmitUntilReset ==
    [][ /\ (~isCompleted /\ isCompleted') => (last'.op = "submitQuiz" /\ last'.ret = "result")
        /\ (isCompleted /\ ~isCompleted') => last'.op = "resetAllAnswers" ]_vars

\* C7 witness: the quiz is still completed after a later call that is neither
\* submitQuiz nor resetAllAnswers was made on it
C7_Witness ==
    /\ isCompleted
    /\ last.op \in {"setAnswer", "loadFromStorage", "addQuestion", "removeQuestion",
                    "getStatistics", "exportData"}

\* C8 as claimed: after resetAllAnswers every selectedAnswer is null, completed
\* is false, score is 0, startTime and endTime are null, no persisted record
\* remains, and attempts is what it was.
C8_Original ==
    [][ last'.op = "resetAllAnswers" =>
          /\ \A i \in DOMAIN questions' : questions'[i].selectedAnswer = null
          /\ Len(questions') = Len(questions)
          /\ ~isCompleted'
          /\ score' = 0
          /\ startTime' = nullTime /\ endTime' = nullTime
          /\ attempts' = attempts
          /\ storage' = <<>> ]_vars

\* C8 amended: as claimed, except that the persisted record is gone only when
\* the storage removal did not throw; when it throws the record stays as it was.
C8_ResetEffect ==
    [][ last'.op = "resetAllAnswers" =>
          /\ \A i \in DOMAIN questions' : questions'[i].selectedAnswer = null
          /\ Len(questions') = Len(questions)
          /\ ~isCompleted'
          /\ score' = 0
          /\ startTime' = nullTime /\ endTime' = nullTime
          /\ attempts' = attempts
          /\ storage' = IF faults' > faults THEN storage ELSE <<>> ]_vars

\* C8 witness: a reset after a submission: attempts is kept, the rest cleared
C8_Witness ==
    /\ last.op = "resetAllAnswers" /\ attempts = 1 /\ submits = 1
    /\ ~isCompleted /\ score = 0 /\ storage = <<>>
    /\ Len(questions) = 2

\* C9 as claimed: attempts never decreases.
C9_AttemptsNeverDecreases ==
    [][ attempts' >= attempts ]_vars

\* C10 as claimed: attempts is the number of successful submitQuiz calls made
\* on this instance.
C10_Original ==
    attempts = submits

\* C10 amended: a freshly constructed Quiz has attempts 0; a successful
\* submitQuiz raises attempts by one; a loadFromStorage that restores a record
\* sets attempts to the record's attempts (which counts the submissions of the
\* instance that wrote it); no other call changes attempts.
C10_AttemptsSteps ==
    /\ attempts = 0
    /\ [][ attempts' =
             IF last'.op = "constructor" THEN 0
             ELSE IF last'.op = "submitQuiz" /\ last'.ret = "result"
                  THEN attempts + 1
             ELSE IF last'.op = "loadFromStorage" /\ last'.ret = "true"
                  THEN storage[1].attempts
             ELSE attempts ]_vars

\* C10 witness: a new instance that made no submission holds the attempts of
\* the record it restored
C10_Witness ==
    /\ last.op = "loadFromStorage" /\ last.ret = "true"
    /\ reloads = 1 /\ submits = 0 /\ attempts = 1

\* every question is unanswered
AllNull == \A i \in DOMAIN questions : questions[i].selectedAnswer = null

\* C12: with saveProgress on and no storage call of the step throwing, after
\* every successful setAnswer on a not-completed quiz the record exists and
\* its answers list holds, entry by entry, each question's id and current
\* selectedAnswer; after a successful submitQuiz or a resetAllAnswers no
\* record exists.
C12_RecordFollowsAnswers ==
    [][ (saveProgress /\ faults' = faults) =>
          /\ (last'.op = "setAnswer" /\ last'.ret = "true" /\ ~isCompleted) =>
                /\ storage' # <<>>
                /\ storage'[1].answers =
                     [i \in DOMAIN questions' |->
                        [id |-> questions'[i].id,
                         selectedAnswer |-> questions'[i].selectedAnswer]]
          /\ (SubmitSucceeded' \/ last'.op = "resetAllAnswers") =>
                storage' = <<>> ]_vars

\* C12 witness: a second answer has just been given and the record written by
\* the first call has been replaced by one holding both answers
C12_Witness ==
    /\ saveProgress /\ ~isCompleted /\ faults = 0
    /\ last.op = "setAnswer" /\ last.ret = "true"
    /\ Len(questions) = 2 /\ AllAnswered
    /\ storage # <<>>
    /\ \A i \in DOMAIN questions :
          storage[1].answers[i].selectedAnswer = questions[i].selectedAnswer

\* C16: a storage call that throws never fails the domain operation: a
\* setAnswer with a known id and a valid option whose setItem throws still
\* returns true and leaves the new value in the question; a resetAllAnswers or
\* a submitQuiz whose removeItem throws still has its full in-memory effect.
C16_StorageFailureNeverFails ==
    [][ /\ \A id \in QuestionIds, a \in Answers :
              setAnswer(id, a, TRUE) =>
                 /\ last'.ret = "true"
                 /\ \E i \in DOMAIN questions :
                       /\ questions[i].id = id
                       /\ \A j \in 1..(i - 1) : questions[j].id # id
                       /\ questions'[i].selectedAnswer = a
        /\ resetAllAnswers(TRUE) =>
              /\ AllNull'
              /\ ~isCompleted' /\ score' = 0
              /\ startTime' = nullTime /\ endTime' = nullTime
        /\ submitQuiz(TRUE) =>
              /\ last'.ret = "result"
              /\ isCompleted' /\ score' = NumCorrect
              /\ attempts' = attempts + 1 /\ endTime' = now ]_vars

\* C16 witness: the first answer was accepted although its setItem threw, so
\* the quiz holds an answer and no record was written
C16_Witness ==
    /\ saveProgress /\ ~isCompleted /\ faults = 1
    /\ last.op = "setAnswer" /\ last.ret = "true"
    /\ ~AllNull /\ storage = <<>>

\* C18: setAnswer with an id no question has returns false without throwing
\* and changes nothing: no selectedAnswer, not startTime, not the record.
C18_UnknownIdIsNoOp ==
    [][ \A id \in QuestionIds, a \in Answers, t \in BOOLEAN :
           ( /\ setAnswer(id, a, t)
             /\ \A i \in DOMAIN questions : questions[i].id # id ) =>
              /\ last'.ret = "false"
              /\ UNCHANGED << questions, isCompleted, score, startTime,
                              endTime, attempts, storage >> ]_vars

\* C18 witness: a call with an unknown id on a fresh quiz: nothing answered,
\* no startTime, no record
C18_Witness ==
    /\ last.op = "setAnswer" /\ last.err = "QuestionNotFound"
    /\ saveProgress /\ Len(questions) = 2 /\ AllNull
    /\ startTime = nullTime /\ storage = <<>>

\* C19: setAnswer with an answer that is not an option of the question
\* returns false without throwing and changes nothing: the question keeps its
\* selectedAnswer, startTime is not set, the record is not rewritten.
C19_InvalidAnswerRejected ==
    [][ \A id \in QuestionIds, a \in Answers, t \in BOOLEAN :
           ( /\ setAnswer(id, a, t)
             /\ \E i \in DOMAIN questions :
                   /\ questions[i].id = id
                   /\ \A j \in 1..(i - 1) : questions[j].id # id
                   /\ \A k \in DOMAIN questions[i].options :
                         questions[i].options[k] # a ) =>
              /\ last'.ret = "false"
              /\ UNCHANGED << questions, isCompleted, score, startTime,
                              endTime, attempts, storage >> ]_vars

\* C19 witness: an invalid answer was rejected while a question holds an
\* earlier answer and the record of that answer is in storage
C19_Witness ==
    /\ last.op = "setAnswer" /\ last.err = "InvalidAnswer"
    /\ ~AllNull /\ startTime # nullTime
    /\ storage # <<>>
    /\ \A i \in DOMAIN questions :
          storage[1].answers[i].selectedAnswer = questions[i].selectedAnswer

\* C20 as claimed: startTime is set by the first successful setAnswer after
\* construction or after a resetAllAnswers, and nothing but a resetAllAnswers
\* (or a new construction) changes it afterwards.
C20_Original ==
    [][ /\ (last'.op = "setAnswer" /\ last'.ret = "true") =>
              startTime' = IF startTime = nullTime THEN now ELSE startTime
        /\ (startTime' # startTime) =>
              \/ last'.op = "setAnswer" /\ last'.ret = "true"
              \/ last'.op = "resetAllAnswers" /\ startTime' = nullTime
              \/ last'.op = "constructor" /\ startTime' = nullTime ]_vars

\* C20 amended: a constructed Quiz has no startTime; a successful setAnswer
\* sets it to the current time when it is null and keeps it otherwise;
\* resetAllAnswers clears it; a loadFromStorage that restores a record with a
\* startTime replaces it by the record's; no other call changes it.
C20_StartTimeSteps ==
    /\ startTime = nullTime
    /\ [][ startTime' =
             IF last'.op = "constructor" \/ last'.op = "resetAllAnswers"
             THEN nullTime
             ELSE IF last'.op = "setAnswer" /\ last'.ret = "true"
                  THEN (IF startTime = nullTime THEN now ELSE startTime)
             ELSE IF /\ last'.op = "loadFromStorage" /\ last'.ret = "true"
                     /\ storage[1].startTime # <<>>
                  THEN storage[1].startTime[1]
             ELSE startTime ]_vars

\* C20 witness: a new instance holds the startTime of the record it restored,
\* earlier than the current time, without any setAnswer of its own
C20_Witness ==
    /\ last.op = "loadFromStorage" /\ last.ret = "true"
    /\ reloads = 1 /\ startTime # nullTime /\ startTime < now

\* C11 as claimed: when the page is unloaded with autoSave on and the quiz
\* not completed, and the application is initialized again, every question
\* answered before the unload has the same selectedAnswer afterwards.
C11_SessionResumes ==
    [][ ( /\ last.op = "destroy" /\ last'.op = "initialize"
          /\ saveProgress /\ ~isCompleted ) =>
           \A i \in DOMAIN questions :
              questions[i].selectedAnswer # null =>
                 /\ i \in DOMAIN questions'
                 /\ questions'[i].selectedAnswer = questions[i].selectedAnswer
      ]_vars

\* the record in storage is one a Quiz of the current questions could have
\* saved in progress: an entry per question, in order, each answer null or
\* one of the question's options
SavedInProgress(record) ==
    /\ ~record.isCompleted /\ record.version = "1.0"
    /\ DOMAIN record.answers = DOMAIN questions
    /\ \A i \in DOMAIN questions :
          /\ record.answers[i].id = questions[i].id
          /\ \/ record.answers[i].selectedAnswer = null
             \/ \E k \in DOMAIN questions[i].options :
                   questions[i].options[k] = record.answers[i].selectedAnswer

\* C13 as claimed: loadFromStorage on a freshly constructed Quiz with the
\* same question set gives every question the selectedAnswer the saved
\* in-progress record holds for its id, whatever option value that is, and
\* leaves the questions the record has no answer for unanswered.
C13_RoundTrip ==
    [][ ( /\ last.op = "constructor" /\ last'.op = "loadFromStorage"
          /\ faults' = faults
          /\ storage # <<>> /\ SavedInProgress(storage[1]) ) =>
           \A i \in DOMAIN questions :
              questions'[i].selectedAnswer = storage[1].answers[i].selectedAnswer
      ]_vars

\* C14 as claimed: a loadFromStorage that finds a record whose completed flag
\* is true restores no answer, startTime or attempts, removes the record and
\* returns false.
C14_Original ==
    [][ \A removeItemThrows \in BOOLEAN :
           ( /\ loadFromStorage(FALSE, removeItemThrows)
             /\ saveProgress /\ storage # <<>> /\ storage[1].isCompleted ) =>
              /\ last'.ret = "false"
              /\ UNCHANGED << questions, startTime, attempts >>
              /\ storage' = <<>> ]_vars

\* C14 amended: such a loadFromStorage restores no answer, startTime or
\* attempts and returns false; the record is removed unless removeItem
\* throws, in which case it stays as it was.
C14_StaleCompletedGuard ==
    [][ \A removeItemThrows \in BOOLEAN :
           ( /\ loadFromStorage(FALSE, removeItemThrows)
             /\ saveProgress /\ storage # <<>> /\ storage[1].isCompleted ) =>
              /\ last'.ret = "false"
              /\ UNCHANGED << questions, startTime, attempts >>
              /\ storage' = IF removeItemThrows THEN storage ELSE <<>> ]_vars

\* C14 witness: a fresh Quiz has refused a completed record, and the record
\* is still there because its removal threw
C14_Witness ==
    /\ last.op = "loadFromStorage" /\ last.ret = "false"
    /\ storage = << CompletedRecord >> /\ faults = 1
    /\ AllNull /\ startTime = nullTime /\ attempts = 0

\* C15 as claimed: a loadFromStorage that finds a record whose version is not
\* a recognized one treats the record as absent: it returns false without
\* throwing and restores no selectedAnswer, startTime or attempts.
C15_UnknownVersionIsAbsent ==
    [][ ( /\ last'.op = "loadFromStorage"
          /\ saveProgress /\ storage # <<>> /\ storage[1].version # "1.0" ) =>
           /\ last'.ret = "false"
           /\ UNCHANGED << questions, startTime, attempts >> ]_vars

\* C17 as claimed: whenever loadFromStorage returns false, every question's
\* selectedAnswer, startTime and attempts are as before the call.
C17_FailedLoadAppliesNothing ==
    [][ (last'.op = "loadFromStorage" /\ last'.ret = "false") =>
           UNCHANGED << questions, startTime, attempts >> ]_vars

\* C21: addQuestion and removeQuestion throw QuizAlreadyCompleted and leave
\* the collection as it is when the quiz is completed; otherwise addQuestion
\* appends the question at the end, and removeQuestion removes the first
\* question with the id and returns true, or returns false and changes
\* nothing when no question has the id.
C21_CollectionChanges ==
    [][ /\ \A q \in ExtraQuestions :
              addQuestion(q) =>
                 IF isCompleted
                 THEN /\ last'.ret = "throw"
                      /\ last'.err = "QuizAlreadyCompleted"
                      /\ questions' = questions
                 ELSE /\ last'.ret = "true"
                      /\ questions' = Append(questions, q)
        /\ \A id \in QuestionIds :
              removeQuestion(id) =>
                 IF isCompleted
                 THEN /\ last'.ret = "throw"
                      /\ last'.err = "QuizAlreadyCompleted"
                      /\ questions' = questions
                 ELSE IF \A i \in DOMAIN questions : questions[i].id # id
                 THEN last'.ret = "false" /\ questions' = questions
                 ELSE /\ last'.ret = "true"
                      /\ Len(questions') = Len(questions) - 1
                      /\ \E i \in DOMAIN questions :
                            /\ questions[i].id = id
                            /\ \A j \in 1..(i - 1) :
                                  /\ questions[j].id # id
                                  /\ questions'[j] = questions[j]
                            /\ \A j \in i..(Len(questions) - 1) :
                                  questions'[j] = questions[j + 1] ]_vars

\* C21 witness: of two questions with id 1 the first was removed and the
\* one added later is left
C21_Witness ==
    /\ last.op = "removeQuestion" /\ last.ret = "true"
    /\ Len(questions) = 1
    /\ questions[1].id = 1 /\ questions[1].options = <<"Berlin", "London">>

\* C22 as claimed: in every reachable state the ids of the questions in the
\* collection are pairwise distinct.
C22_IdsDistinct ==
    \A i \in DOMAIN questions : \A j \in DOMAIN questions :
       i # j => questions[i].id # questions[j].id

\* C27 as claimed: the progress percentage is 100 * answered / total rounded
\* to an integer for a Quiz with at least one question and 0 for a Quiz with
\* none, always an integer from 0 to 100.
C27_ProgressPercentage ==
    last.op = "getStatistics" =>
       LET progress == last.result[1].progress
           total == Len(questions)
           answered == Cardinality({i \in DOMAIN questions :
                                       questions[i].selectedAnswer # null})
       IN  /\ progress \in 0..100
           /\ progress = IF total = 0 THEN 0
                         ELSE (200 * answered + total) \div (2 * total)

\* C28: getStatistics changes nothing: not score, completed, startTime,
\* endTime, attempts, the questions and their answers, or the record; the
\* passed field of what it returns is null exactly when the quiz is not
\* completed.
C28_StatisticsIsPureRead ==
    [][ last'.op = "getStatistics" =>
           /\ UNCHANGED << questions, isCompleted, score, startTime, endTime,
                           attempts, saveProgress, storage >>
           /\ (last'.result[1].passed = <<>>) <=> ~isCompleted ]_vars

\* C28 witness: the statistics of a completed, passed quiz
C28_Witness ==
    /\ last.op = "getStatistics" /\ isCompleted
    /\ last.result[1].passed = << TRUE >>
    /\ score = 2 /\ storage = <<>>

\* C26 as claimed: the Result of a successful submission with total questions
\* and score correct answers has percentage = 100 * score / total rounded
\* half up, passed = (score / total >= 0.7) and passingScore =
\* ceiling(total * 0.7).
C26_ResultArithmetic ==
    SubmitSucceeded =>
       LET r == last.result[1] IN
       /\ r.total = Len(questions) /\ r.score = NumCorrect
       /\ r.percentage = (200 * r.score + r.total) \div (2 * r.total)
       /\ r.passed = (r.score * ThresholdDen >= ThresholdNum * r.total)
       /\ r.passingScore * ThresholdDen >= ThresholdNum * r.total
       /\ (r.passingScore - 1) * ThresholdDen < ThresholdNum * r.total

\* C23: in every reachable state every question's correctAnswer is one of its
\* options and its selectedAnswer is null or one of its options.
C23_AnswersAmongOptions ==
    \A i \in DOMAIN questions :
       /\ \E k \in DOMAIN questions[i].options :
             questions[i].options[k] = questions[i].correctAnswer
       /\ \/ questions[i].selectedAnswer = null
          \/ \E k \in DOMAIN questions[i].options :
                questions[i].options[k] = questions[i].selectedAnswer

\* C23 witness: an answered question has just refused an answer that is not
\* among its options
C23_Witness ==
    /\ last.op = "Question.setAnswer" /\ last.err = "InvalidAnswer"
    /\ questions # <<>> /\ questions[1].selectedAnswer # null

\* C24: isCorrect() is true exactly when selectedAnswer equals correctAnswer,
\* and so false for an unanswered question.
C24_IsCorrectIffEqual ==
    last.op = "Question.isCorrect" =>
       /\ (last.ret = "true") <=>
             (questions[1].selectedAnswer = questions[1].correctAnswer)
       /\ last.ret \in {"true", "false"}
       /\ questions[1].selectedAnswer = null => last.ret = "false"

\* C24 witness: isCorrect() has answered false for a question holding an
\* option other than the correct one
C24_Witness ==
    /\ last.op = "Question.isCorrect" /\ last.ret = "false"
    /\ questions[1].selectedAnswer # null
    /\ questions[1].selectedAnswer # questions[1].correctAnswer

\* C25: resetAnswer() always succeeds and leaves the question as it was
\* constructed: selectedAnswer null, whatever it was (an option set before,
\* or null already), everything else unchanged.
C25_ResetAnswerRestoresNull ==
    [][ last'.op = "Question.resetAnswer" =>
           /\ last'.ret = "void"
           /\ questions' =
                << [questions[1] EXCEPT !.selectedAnswer = null] >> ]_vars

\* C25 witness: a reset question is unanswered
C25_Witness ==
    /\ last.op = "Question.resetAnswer"
    /\ questions[1].type = "multiple-choice"
    /\ questions[1].selectedAnswer = null

\* C29 as claimed: every constructed question has at least two distinct
\* values among its options.
C29_TwoDistinctOptions ==
    \A i \in DOMAIN questions :
       \E k \in DOMAIN questions[i].options :
          \E m \in DOMAIN questions[i].options :
             questions[i].options[k] # questions[i].options[m]

\* C30: new MultipleChoiceQuestion(id, text, options, correctAnswer) succeeds
\* exactly when there are 2 to 6 options, correctAnswer is one of them, and
\* id, text and correctAnswer are not empty or absent; otherwise it throws and
\* no question is produced.
C30_MultipleChoiceConstruction ==
    [][ \A id \in QuestionInputIds, text \in QuestionTexts,
           options \in OptionLists, correctAnswer \in CorrectAnswers :
           NewMultipleChoiceQuestion(id, text, options, correctAnswer) =>
              IF /\ Len(options) >= 2 /\ Len(options) <= 6
                 /\ \E k \in DOMAIN options : options[k] = correctAnswer
                 /\ id # 0 /\ text # ""
                 /\ correctAnswer # "" /\ correctAnswer # null
              THEN /\ last'.ret = "object"
                   /\ questions' = << [id |-> id, type |-> "multiple-choice",
                                       options |-> options,
                                       correctAnswer |-> correctAnswer,
                                       selectedAnswer |-> null] >>
              ELSE /\ last'.ret = "throw"
                   /\ questions' = questions ]_vars

\* C30 witness: a construction with a single option was refused and no
\* question exists
C30_Witness ==
    /\ last.op = "MultipleChoiceQuestion" /\ last.err = "OptionCount"
    /\ questions = <<>>

\* C31: new TrueFalseQuestion(id, text, correctAnswer) succeeds only when
\* correctAnswer is the string "True" or "False" (and id and text are not
\* empty), and the question it yields has the options <<"True", "False">>;
\* with any other correctAnswer it throws and no question is produced.
C31_TrueFalseConstruction ==
    [][ \A id \in QuestionInputIds, text \in QuestionTexts,
           correctAnswer \in BooleanAnswers :
           NewTrueFalseQuestion(id, text, correctAnswer) =>
              IF /\ correctAnswer \in {"True", "False"}
                 /\ id # 0 /\ text # ""
              THEN /\ last'.ret = "object"
                   /\ questions' = << [id |-> id, type |-> "true-false",
                                       options |-> <<"True", "False">>,
                                       correctAnswer |-> correctAnswer,
                                       selectedAnswer |-> null] >>
              ELSE /\ last'.ret = "throw"
                   /\ questions' = questions ]_vars

\* C31 witness: a construction with a correct answer that is neither "True"
\* nor "False" was refused and no question exists
C31_Witness ==
    /\ last.op = "TrueFalseQuestion"
    /\ last.err = "CorrectAnswerNotBoolean"
    /\ questions = <<>>

\* two questions of the collection have the same id
SharedId ==
    \E i \in DOMAIN questions : \E j \in DOMAIN questions :
       i # j /\ questions[i].id = questions[j].id

\* C33: when two questions share an id, a successful setAnswer(id, v) changes
\* the selectedAnswer of the first question with the id and nothing else in
\* the collection, and a successful removeQuestion(id) removes that first
\* question and leaves the others, the later duplicate among them, as they
\* were.
C33_FirstMatchWins ==
    [][ SharedId =>
          /\ \A id \in QuestionIds, a \in Answers, t \in BOOLEAN :
                (setAnswer(id, a, t) /\ last'.ret = "true") =>
                   \E i \in DOMAIN questions :
                      /\ questions[i].id = id
                      /\ \A j \in 1..(i - 1) : questions[j].id # id
                      /\ questions' =
                           [questions EXCEPT ![i].selectedAnswer = a]
          /\ \A id \in QuestionIds :
                (removeQuestion(id) /\ last'.ret = "true") =>
                   \E i \in DOMAIN questions :
                      /\ questions[i].id = id
                      /\ \A j \in 1..(i - 1) : questions[j].id # id
                      /\ questions' =
                           [j \in 1..(Len(questions) - 1) |->
                              IF j < i THEN questions[j]
                              ELSE questions[j + 1]] ]_vars

\* C33 witness: of two questions with id 1 the first holds an answer and the
\* second none
C33_Witness ==
    /\ SharedId /\ Len(questions) = 2
    /\ last.op = "setAnswer" /\ last.ret = "true"
    /\ questions[1].selectedAnswer # null
    /\ questions[2].selectedAnswer = null

\* C35: while no storage call has thrown, a record exists only while the
\* quiz is not completed, and the record has its completed flag false.
C35_NoRecordWhenCompleted ==
    (faults = 0 /\ storage # <<>>) =>
       (~isCompleted /\ ~storage[1].isCompleted)

\* C35 witness: the tab was hidden on a completed quiz with saveProgress on,
\* and no record was written
C35_Witness ==
    /\ last.op = "_saveToStorage" /\ saveProgress /\ isCompleted
    /\ faults = 0 /\ storage = <<>>

\* C36: endTime is non-null exactly when completed is true: both are unset
\* after construction, submitQuiz sets both, resetAllAnswers clears both and
\* no other operation changes either.
C36_EndTimeIffCompleted ==
    /\ endTime = nullTime /\ ~isCompleted
    /\ [][ /\ (endTime' # nullTime) <=> isCompleted'
           /\ (endTime' # endTime \/ isCompleted' # isCompleted) =>
                 \/ last'.op = "submitQuiz" /\ last'.ret = "result"
                 \/ last'.op = "resetAllAnswers"
                 \/ last'.op = "constructor" ]_vars

\* C36 witness: a loadFromStorage on a completed quiz has left endTime and
\* completed as the submission set them
C36_Witness ==
    /\ last.op = "loadFromStorage"
    /\ isCompleted /\ endTime # nullTime

\* C39 as claimed: the Result of a successful submitQuiz has
\* 0 <= score <= total, an integer percentage from 0 to 100, and passed true
\* exactly when score >= passingScore.
C39_ResultWellFormed ==
    SubmitSucceeded =>
       LET r == last.result[1] IN
       /\ r.score \in 0..r.total
       /\ r.percentage \in 0..100
       /\ r.passed \in BOOLEAN
       /\ r.passed <=> (r.score >= r.passingScore)

\* C38: a Quiz constructed with saveProgress false never writes a record
\* (each of its operations leaves storage as it was or removes the record),
\* and its loadFromStorage returns false and restores nothing, also when a
\* record is stored under the key.
C38_NoSaveNoLoad ==
    [][ /\ last'.op # "foreignWrite" =>
              (storage' = storage \/ storage' = <<>>)
        /\ last'.op = "loadFromStorage" =>
              /\ last'.ret = "false"
              /\ storage' = storage
              /\ questions' = questions
              /\ startTime' = startTime
              /\ attempts' = attempts ]_vars

\* C38 witness: loadFromStorage returned false and restored nothing although
\* a restorable record of an unfinished quiz is stored
C38_Witness ==
    /\ ~saveProgress
    /\ last.op = "loadFromStorage" /\ last.ret = "false"
    /\ storage = << LaterVersionRecord >>
    /\ AllNull /\ attempts = 0

\* C40: from every not-completed state of the quiz of the initial questions
\* (non-empty, ids distinct) with a attempts so far, a caller who keeps
\* answering each unanswered question with one of its options and keeps
\* calling submitQuiz reaches, unless a reset comes in between, the completed
\* state with a + 1 attempts.
C40_EventuallyCompleted ==
    \A a \in 0..(MaxAttempts - 1) :
       (~isCompleted /\ attempts = a) ~>
          \/ isCompleted /\ attempts = a + 1
          \/ last.op = "resetAllAnswers"

\* C40 witness: a quiz that was reset after its first submission has been
\* answered again and submitted a second time
C40_Witness ==
    /\ isCompleted /\ attempts = 2
    /\ last.op = "submitQuiz" /\ last.ret = "result"
    /\ AllAnswered

\* C32: on a page load the stored state is loaded before the first render:
\* after the start-up the options shown as checked are the selected answers
\* of the Quiz, the submit buttons are enabled exactly when every question
\* has an answer, and when loadFromStorage returned true these answers are
\* the ones of the stored record; with autoSave off nothing is loaded.
C32_LoadBeforeFirstRender ==
    [][ last'.op = "initialize" =>
          /\ app'.rendered.answers =
                [i \in DOMAIN questions' |-> questions'[i].selectedAnswer]
          /\ app'.rendered.submitDisabled <=>
                (\E i \in DOMAIN questions' :
                    questions'[i].selectedAnswer = null)
          /\ last'.ret = "true" =>
                /\ saveProgress /\ storage # <<>> /\ storage' = storage
                /\ \A i \in DOMAIN questions' :
                      /\ storage[1].answers[i].id = questions'[i].id
                      /\ storage[1].answers[i].selectedAnswer =
                            questions'[i].selectedAnswer
          /\ ~saveProgress =>
                /\ last'.ret = "false"
                /\ \A i \in DOMAIN questions' :
                      questions'[i].selectedAnswer = null ]_vars

\* C32 witness: the page came up with both stored answers shown as checked
\* and the submit buttons enabled
C32_Witness ==
    /\ last.op = "initialize" /\ last.ret = "true"
    /\ app.rendered.answers = <<"Paris", "False">>
    /\ ~app.rendered.submitDisabled

\* C34 as claimed: whenever a result is held and the result screen is
\* visible, an Escape keydown resets the quiz and shows the quiz screen again.
C34_EscapeReturnsToQuiz ==
    [][ \A confirmed \in BOOLEAN :
          ( /\ app.currentResult # <<>>
            /\ app.resultScreen = "visible"
            /\ handleKeyboard("Escape", confirmed) ) =>
             /\ ~isCompleted' /\ AllNull'
             /\ app'.currentResult = <<>>
             /\ app'.resultScreen = "hidden" ]_vars

\* C37: after every handler of the page the app holds a current result
\* exactly when its quiz is completed, and a submit that fails (a question
\* unanswered) or is repeated (the quiz completed already) leaves the held
\* result as it was.
C37_ResultIffCompleted ==
    /\ (app.currentResult # <<>>) <=> isCompleted
    /\ [][ /\ last'.op # "destroy" =>
                 ((app'.currentResult # <<>>) <=> isCompleted')
           /\ (handleSubmit /\ last'.ret # "result") =>
                 app'.currentResult = app.currentResult ]_vars

\* C37 witness: a repeated submit was refused and the result of the first
\* submission is still held
C37_Witness ==
    /\ last.op = "submitQuiz" /\ last.err = "AlreadySubmitted"
    /\ isCompleted
    /\ app.currentResult # <<>>
    /\ app.currentResult[1].attempts = attempts

====
